---- MODULE Spec2Model ----
(***************************************************************************)
(* A model of pinkycoin: Transaction, Block and Blockchain of              *)
(* src/unnamed/part_000 and the demo driver of src/main.js.                *)
(*                                                                         *)
(* JavaScript strings are sequences of one-character strings, so that the  *)
(* `+` concatenations that build the digests' inputs are modelled as what  *)
(* they are (the word undefined is kept as one token).  The value null is  *)
(* the one-token sequence Null, whose string form is "null"; a property    *)
(* that was never assigned (undefined) is a field missing from the record. *)
(***************************************************************************)
EXTENDS Integers, Sequences, FiniteSets, TLC

VARIABLES
  chain,                \* Blockchain.chain: the sequence of blocks
  pendingTransactions,  \* Blockchain.pendingTransactions
  tx,                   \* the Transaction object a caller is preparing
  ret,                  \* the last call: its name, argument and how it ended
  tampered,             \* what was written into the chain's objects directly
  aBlock                \* the Block object a caller constructs and mines

vars == <<chain, pendingTransactions, tx, ret, tampered, aBlock>>

(***************************************************************************)
(* Bounds of the model.                                                    *)
(***************************************************************************)
MaxChain == 3        \* blocks in the chain, genesis included
MaxTransfers == 2    \* transfers accepted by addTransaction, mined or pending

(***************************************************************************)
(* Program constants.                                                      *)
(***************************************************************************)
difficulty == 2
miningReward == 100
\* Date.parse("2021-01-01"); time is counted from the genesis block's date.
GenesisTime == 0

(***************************************************************************)
(* Strings.                                                                *)
(***************************************************************************)
Digits == <<"0", "1", "2", "3", "4", "5", "6", "7", "8", "9">>

Null == <<"null">>
NullString == <<"n", "u", "l", "l">>
UndefinedString == <<"undefined">>
EmptyString == <<>>

\* Number.prototype.toString for an integer.
RECURSIVE NumToString(_)
NumToString(n) ==
  IF n < 0 THEN <<"-">> \o NumToString(-n)
  ELSE IF n < 10 THEN <<Digits[n + 1]>>
  ELSE NumToString(n \div 10) \o <<Digits[(n % 10) + 1]>>

\* The string an address contributes to a `+` concatenation.
AddressToString(a) == IF a = Null THEN NullString ELSE a

\* !x for an address: null and "" are falsy.
Falsy(a) == a = Null \/ a = EmptyString

(***************************************************************************)
(* forge.md.sha256 ... digest().toHex().  The digest is taken to be        *)
(* injective: the model's digest of s is s itself behind a "#", preceded   *)
(* by the digest's first two characters, which are a fixed function of s   *)
(* over a three-letter alphabet ("0", "7", "e").                           *)
(***************************************************************************)
HexAlphabet == <<"0", "7", "e">>

CharCode(c) ==
  IF \E d \in 1..10 : Digits[d] = c
  THEN (CHOOSE d \in 1..10 : Digits[d] = c) - 1
  ELSE 1

RECURSIVE SumCodes(_)
SumCodes(s) == IF s = <<>> THEN 0 ELSE CharCode(Head(s)) + SumCodes(Tail(s))

HexPrefix(s) ==
  LET m == SumCodes(s) % 9
  IN <<HexAlphabet[(m % 3) + 1], HexAlphabet[(m \div 3) + 1]>>

sha256(s) == HexPrefix(s) \o <<"#">> \o s

(***************************************************************************)
(* elliptic: key pairs, sign and verify.  A key pair is named by its       *)
(* private key; its public key in hex is the wallet address.               *)
(***************************************************************************)
Keys == {"a", "c"}

getPublic(key) == IF key = "a" THEN <<"A">> ELSE <<"C">>

\* signingKey.sign(hash).toDER("hex")
sign(key, hash) == <<"$", key>> \o hash

\* ec.keyFromPublic(address, 'hex').verify(hash, signature)
verify(address, hash, signature) ==
  \E key \in Keys : getPublic(key) = address /\ signature = sign(key, hash)

(***************************************************************************)
(* Inputs: the addresses, amounts and clock readings the callers use.      *)
(***************************************************************************)
Senders == {getPublic(k) : k \in Keys} \cup {Null, EmptyString}
Recipients == {<<"B">>, EmptyString}
Miners == {getPublic(k) : k \in Keys}
Amounts == {0, 50, 100}
\* Date.now(), counted from the genesis block's date
Times == {1, 2}
\* The readings the chain's operations are followed with.
ChainTimes == {1}

(***************************************************************************)
(* class Transaction                                                       *)
(***************************************************************************)
Transaction(fromAddress, toAddress, amount, now) ==
  [fromAddress |-> fromAddress, toAddress |-> toAddress, amount |-> amount,
   timestamp |-> now]

\* The digest with the timestamp under it as well.
Transaction_calculateHash_WithTimestamp(this) ==
  sha256(AddressToString(this.fromAddress) \o AddressToString(this.toAddress)
         \o NumToString(this.amount) \o NumToString(this.timestamp))

Transaction_calculateHash(this) ==
  sha256(AddressToString(this.fromAddress) \o AddressToString(this.toAddress)
         \o NumToString(this.amount))

\* this.signature = value, on an object that may not have the property yet.
SetSignature(this, value) ==
  [f \in DOMAIN this \cup {"signature"} |->
     IF f = "signature" THEN value ELSE this[f]]

MissingSignature == "Error: Missing signature of Transaction!"
NoPrivilege ==
  "Error: Transaction cannot be signed because you have no privilege for this Transaction!"

\* What signTransaction throws ("" when it returns).
signTransactionThrows(this, signingKey) ==
  IF getPublic(signingKey) # this.fromAddress THEN NoPrivilege ELSE ""

\* signTransaction without the comparison of the key with the sender.
signTransaction_NoPrivilegeCheck(this, signingKey) ==
  SetSignature(this, sign(signingKey, Transaction_calculateHash(this)))

\* The object after signTransaction(signingKey).
signTransaction(this, signingKey) ==
  IF signTransactionThrows(this, signingKey) # "" THEN this
  ELSE LET hashTx == Transaction_calculateHash(this)
           sig == sign(signingKey, hashTx)
       IN SetSignature(this, sig)

\* isValid with an unsigned transaction reported invalid instead of thrown on.
isValid_FalseWhenUnsigned(this) ==
  IF this.fromAddress = Null THEN "true"
  ELSE IF "signature" \notin DOMAIN this \/ Len(this.signature) = 0
       THEN "false"
  ELSE IF verify(this.fromAddress, Transaction_calculateHash(this), this.signature)
       THEN "true"
  ELSE "false"

\* "true", "false", or the error thrown.
isValid(this) ==
  IF this.fromAddress = Null THEN "true"
  ELSE IF "signature" \notin DOMAIN this \/ Len(this.signature) = 0
       THEN MissingSignature
  ELSE IF verify(this.fromAddress, Transaction_calculateHash(this), this.signature)
       THEN "true"
  ELSE "false"

(***************************************************************************)
(* class Block                                                             *)
(***************************************************************************)
\* A property of a block in a `+` concatenation; a property never assigned
\* reads undefined.
PropertyString(this, name) ==
  IF name \notin DOMAIN this THEN UndefinedString
  ELSE IF name = "previousHash" THEN this[name]
  ELSE NumToString(this[name])

\* JSON.stringify(undefined) is undefined, which `+` turns into "undefined".
JSONstringifyData(this) ==
  IF "data" \notin DOMAIN this THEN UndefinedString ELSE this.data

Block_calculateHash(this) ==
  sha256(PropertyString(this, "index") \o PropertyString(this, "previousHash")
         \o PropertyString(this, "timestamp") \o JSONstringifyData(this)
         \o PropertyString(this, "nonce"))

\* The constructor computes the hash before it assigns the nonce.
Block(timestamp, transactions, previousHash) ==
  LET this == [previousHash |-> previousHash, timestamp |-> timestamp,
               transactions |-> transactions]
  IN [previousHash |-> previousHash, timestamp |-> timestamp,
      transactions |-> transactions, hash |-> Block_calculateHash(this),
      nonce |-> 0]

\* Array(difficulty + 1).join("0")
Zeros(d) == [i \in 1..d |-> "0"]

\* hash.substring(0, difficulty)
Substring0(s, d) == SubSeq(s, 1, IF d < Len(s) THEN d ELSE Len(s))

RECURSIVE mineBlock(_, _)
mineBlock(this, d) ==
  IF Substring0(this.hash, d) # Zeros(d)
  THEN LET next == [this EXCEPT !.nonce = @ + 1]
       IN mineBlock([next EXCEPT !.hash = Block_calculateHash(next)], d)
  ELSE this

\* "true", "false", or the error a transaction's isValid throws.
RECURSIVE hasValidTransactionFrom(_, _)
hasValidTransactionFrom(transactions, i) ==
  IF i > Len(transactions) THEN "true"
  ELSE LET v == isValid(transactions[i])
       IN IF v = "true" THEN hasValidTransactionFrom(transactions, i + 1)
          ELSE v

hasValidTransaction(this) == hasValidTransactionFrom(this.transactions, 1)

\* The methods class Block defines.
BlockMethods == {"calculateHash", "mineBlock", "hasValidTransaction"}

(***************************************************************************)
(* class Blockchain                                                        *)
(***************************************************************************)
createGenesisBlock == Block(GenesisTime, <<>>, <<"0">>)

\* The first block taken for the latest one.
getLatestBlock_First == chain[1]

getLatestBlock == chain[Len(chain)]

\* JSON.stringify of a transaction: its properties in the order of their
\* assignment; a property that is undefined is left out.
JSONstringifyTransaction(t) ==
  <<t.fromAddress, t.toAddress, NumToString(t.amount), NumToString(t.timestamp)>>
  \o (IF "signature" \in DOMAIN t THEN <<t.signature>> ELSE <<>>)

\* JSON.stringify of a block: previousHash, timestamp, transactions, hash, nonce.
JSONstringifyBlock(b) ==
  <<b.previousHash, NumToString(b.timestamp),
    [i \in 1..Len(b.transactions) |-> JSONstringifyTransaction(b.transactions[i])],
    b.hash, NumToString(b.nonce)>>

\* The balance with the sender's side of a transaction forgotten.
RECURSIVE balanceOverTransactions_NoDebit(_, _, _, _)
balanceOverTransactions_NoDebit(transactions, i, address, balance) ==
  IF i > Len(transactions) THEN balance
  ELSE LET transaction == transactions[i]
           b2 == IF transaction.toAddress = address
                 THEN balance + transaction.amount ELSE balance
       IN balanceOverTransactions_NoDebit(transactions, i + 1, address, b2)

\* The balance after the transactions i.. of one block.
RECURSIVE balanceOverTransactions(_, _, _, _)
balanceOverTransactions(transactions, i, address, balance) ==
  IF i > Len(transactions) THEN balance
  ELSE LET transaction == transactions[i]
           b1 == IF transaction.fromAddress = address
                 THEN balance - transaction.amount ELSE balance
           b2 == IF transaction.toAddress = address
                 THEN b1 + transaction.amount ELSE b1
       IN balanceOverTransactions(transactions, i + 1, address, b2)

\* The balance after the blocks i.. of a chain.
RECURSIVE balanceOverBlocks(_, _, _, _)
balanceOverBlocks(blocks, i, address, balance) ==
  IF i > Len(blocks) THEN balance
  ELSE balanceOverBlocks(blocks, i + 1, address,
         balanceOverTransactions(blocks[i].transactions, 1, address, balance))

balanceIn(blocks, address) == balanceOverBlocks(blocks, 1, address, 0)

\* What the transactions of a list take from an address.
RECURSIVE spentIn(_, _)
spentIn(transactions, address) ==
  IF transactions = <<>> THEN 0
  ELSE (IF Head(transactions).fromAddress = address
        THEN Head(transactions).amount ELSE 0)
       + spentIn(Tail(transactions), address)

\* The balance with the pending queue counted as if it were a block.
getBalanceOfAddress_WithPending(address) ==
  balanceOverTransactions(pendingTransactions, 1, address, balanceIn(chain, address))

getBalanceOfAddress(address) == balanceIn(chain, address)

MissingAddress == "Error: Transaction must include from and to address"
InvalidTransaction == "Error: Cannot add invalid transaction to chain"
AmountNotPositive == "Error: Transaction amount should be higher than 0"
NotEnoughBalance == "Error: Not enough balance"

\* addTransactionThrows with an amount of 0 let through.
addTransactionThrows_ZeroAmount(transaction) ==
  IF Falsy(transaction.fromAddress) \/ Falsy(transaction.toAddress)
  THEN MissingAddress
  ELSE IF isValid(transaction) \notin {"true", "false"} THEN isValid(transaction)
  ELSE IF isValid(transaction) # "true" THEN InvalidTransaction
  ELSE IF transaction.amount < 0 THEN AmountNotPositive
  ELSE IF getBalanceOfAddress(transaction.fromAddress) < transaction.amount
       THEN NotEnoughBalance
  ELSE ""

\* addTransactionThrows with the sender's pending transfers taken off the balance.
addTransactionThrows_CountsPending(transaction) ==
  IF Falsy(transaction.fromAddress) \/ Falsy(transaction.toAddress)
  THEN MissingAddress
  ELSE IF isValid(transaction) \notin {"true", "false"} THEN isValid(transaction)
  ELSE IF isValid(transaction) # "true" THEN InvalidTransaction
  ELSE IF transaction.amount <= 0 THEN AmountNotPositive
  ELSE IF getBalanceOfAddress(transaction.fromAddress)
            - spentIn(pendingTransactions, transaction.fromAddress)
          < transaction.amount
       THEN NotEnoughBalance
  ELSE ""

\* What addTransaction(transaction) throws ("" when it returns).
addTransactionThrows(transaction) ==
  IF Falsy(transaction.fromAddress) \/ Falsy(transaction.toAddress)
  THEN MissingAddress
  ELSE IF isValid(transaction) \notin {"true", "false"} THEN isValid(transaction)
  ELSE IF isValid(transaction) # "true" THEN InvalidTransaction
  ELSE IF transaction.amount <= 0 THEN AmountNotPositive
  ELSE IF getBalanceOfAddress(transaction.fromAddress) < transaction.amount
       THEN NotEnoughBalance
  ELSE ""

\* addTransaction with the push done before the checks.
addTransaction_PushBeforeChecks(transaction) ==
  Append(pendingTransactions, transaction)

\* The pending queue after addTransaction(transaction).
addTransaction(transaction) ==
  IF addTransactionThrows(transaction) # "" THEN pendingTransactions
  ELSE Append(pendingTransactions, transaction)

\* minedBlock with the reward transaction put in front of the queue.
minedBlock_RewardFirst(miningRewardAddress, now1, now2) ==
  LET rewardTx == Transaction(Null, miningRewardAddress, miningReward, now1)
      pending == <<rewardTx>> \o pendingTransactions
      block == Block(now2, pending, getLatestBlock.hash)
  IN mineBlock(block, difficulty)

\* minedBlock with no reward transaction pushed on the queue.
minedBlock_NoReward(miningRewardAddress, now1, now2) ==
  LET block == Block(now2, pendingTransactions, getLatestBlock.hash)
  IN mineBlock(block, difficulty)

\* The block minePendingTransactions(miningRewardAddress) pushes; now1 and
\* now2 are its two readings of Date.now().
minedBlock(miningRewardAddress, now1, now2) ==
  LET rewardTx == Transaction(Null, miningRewardAddress, miningReward, now1)
      pending == Append(pendingTransactions, rewardTx)
      block == Block(now2, pending, getLatestBlock.hash)
  IN mineBlock(block, difficulty)

NotAFunction == "TypeError: currentBlock.hasValidTransactions is not a function"

\* The loop of isChainValid from block i on: "true", "false" or the error.
RECURSIVE isChainValidFrom(_, _)
isChainValidFrom(blocks, i) ==
  IF i > Len(blocks) THEN "true"
  ELSE LET currentBlock == blocks[i]
       IN IF "hasValidTransactions" \notin BlockMethods THEN NotAFunction
          ELSE IF hasValidTransaction(currentBlock) \notin {"true", "false"}
               THEN hasValidTransaction(currentBlock)
          ELSE IF hasValidTransaction(currentBlock) # "true" THEN "false"
          ELSE IF currentBlock.hash # Block_calculateHash(currentBlock) THEN "false"
          ELSE isChainValidFrom(blocks, i + 1)

isChainValidOf(blocks) ==
  IF JSONstringifyBlock(createGenesisBlock) # JSONstringifyBlock(blocks[1])
  THEN "false"
  ELSE isChainValidFrom(blocks, 2)

isChainValid == isChainValidOf(chain)

(***************************************************************************)
(* The callers' transactions: what a caller can hand to addTransaction.    *)
(* A transaction is constructed, then left unsigned, given an empty        *)
(* signature, or signed by a key through signTransaction; after signing    *)
(* the caller may still overwrite the sender and the amount.               *)
(***************************************************************************)

Constructed ==
  {Transaction(f, t, a, now) : f \in Senders, t \in Recipients, a \in Amounts,
                               now \in ChainTimes}

\* Signed by the sender's key.
Signed ==
  {signTransaction(Transaction(getPublic(key), t, a, now), key) :
     key \in Keys, t \in Recipients, a \in Amounts, now \in ChainTimes}

\* transaction.amount = a, after signing.
AmountOverwritten == {[t EXCEPT !.amount = a] : t \in Signed, a \in Amounts}

\* transaction.fromAddress = f, after signing.
SenderOverwritten ==
  {[t EXCEPT !.fromAddress = f] : t \in Signed, f \in Miners \cup {Null}}

\* transaction.signature = ""
EmptySigned == {SetSignature(t, EmptyString) : t \in Constructed}

TxInputs ==
  Constructed \cup Signed \cup AmountOverwritten \cup SenderOverwritten
  \cup EmptySigned

\* Transfers the chain holds, mined or pending.
RECURSIVE CountTransfers(_)
CountTransfers(transactions) ==
  IF transactions = <<>> THEN 0
  ELSE (IF Head(transactions).fromAddress = Null THEN 0 ELSE 1)
       + CountTransfers(Tail(transactions))

RECURSIVE AllTransactions(_)
AllTransactions(blocks) ==
  IF blocks = <<>> THEN <<>>
  ELSE Head(blocks).transactions \o AllTransactions(Tail(blocks))

Transfers == CountTransfers(AllTransactions(chain) \o pendingTransactions)

(***************************************************************************)
(* The public operations.                                                  *)
(***************************************************************************)
NoTransaction == Transaction(Null, Null, 0, 0)

Returned(op, arg, result) == [op |-> op, arg |-> arg, result |-> result]

Init ==
  /\ chain = <<createGenesisBlock>>
  /\ pendingTransactions = <<>>
  /\ tx = NoTransaction
  /\ ret = Returned("constructor", <<>>, "")
  /\ tampered = ""
  /\ aBlock = createGenesisBlock

AddTransaction ==
  \E transaction \in TxInputs :
    /\ addTransactionThrows(transaction) = "" => Transfers < MaxTransfers
    /\ pendingTransactions' = addTransaction(transaction)
    /\ ret' = Returned("addTransaction", <<>>,
                       IF addTransactionThrows(transaction) = "" THEN "" ELSE "threw")
    /\ UNCHANGED <<chain, tx, tampered, aBlock>>

\* minePendingTransactions with the block put in front of the chain.
MinePendingTransactions_Unshift ==
  \E miningRewardAddress \in Miners, now1 \in ChainTimes, now2 \in ChainTimes :
    /\ Len(chain) < MaxChain
    /\ now1 <= now2
    /\ chain' = <<minedBlock(miningRewardAddress, now1, now2)>> \o chain
    /\ pendingTransactions' = <<>>
    /\ ret' = Returned("minePendingTransactions", miningRewardAddress, "")
    /\ UNCHANGED <<tx, tampered, aBlock>>

MinePendingTransactions ==
  \E miningRewardAddress \in Miners, now1 \in ChainTimes, now2 \in ChainTimes :
    /\ Len(chain) < MaxChain
    /\ now1 <= now2
    /\ chain' = Append(chain, minedBlock(miningRewardAddress, now1, now2))
    /\ pendingTransactions' = <<>>
    /\ ret' = Returned("minePendingTransactions", miningRewardAddress, "")
    /\ UNCHANGED <<tx, tampered, aBlock>>

IsChainValid ==
  /\ ret' = Returned("isChainValid", <<>>,
                     IF isChainValid \in {"true", "false"} THEN isChainValid ELSE "threw")
  /\ UNCHANGED <<chain, pendingTransactions, tx, tampered, aBlock>>

Next == AddTransaction \/ MinePendingTransactions \/ IsChainValid

Spec == Init /\ [][Next]_vars

(***************************************************************************)
(* Direct writes into the chain's objects, as the last lines of the demo   *)
(* driver suggest: pinkycoin.chain[1].transactions[0].amount = 10.         *)
(***************************************************************************)
TamperAmounts == Amounts \cup {10}

\* chain[i].transactions[j].amount = a, hash and nonce left as they are.
TamperAmount ==
  \E i \in 2..Len(chain) :
    \E j \in 1..Len(chain[i].transactions), a \in TamperAmounts :
      /\ tampered = ""
      /\ a # chain[i].transactions[j].amount
      /\ chain' = [chain EXCEPT ![i].transactions[j].amount = a]
      /\ tampered' = "amount"
      /\ ret' = Returned("chain[i].transactions[j].amount =", <<>>, "")
      /\ UNCHANGED <<pendingTransactions, tx, aBlock>>

\* The block after block.timestamp = now; block.hash = block.calculateHash();
\* block.mineBlock(difficulty).
remined(block, now) ==
  LET altered == [block EXCEPT !.timestamp = now]
  IN mineBlock([altered EXCEPT !.hash = Block_calculateHash(altered)], difficulty)

\* A block is altered and mined again; the blocks after it are left alone.
AlterAndRemine ==
  \E i \in 2..Len(chain), now \in {2, 3} :
    /\ tampered = ""
    /\ chain' = [chain EXCEPT ![i] = remined(chain[i], now)]
    /\ tampered' = "remined"
    /\ ret' = Returned("chain[i].mineBlock", <<>>, "")
    /\ UNCHANGED <<pendingTransactions, tx, aBlock>>

NextTamper == Next \/ TamperAmount \/ AlterAndRemine

SpecTamper == Init /\ [][NextTamper]_vars

(***************************************************************************)
(* One Transaction object in a caller's hands: constructed, signed,        *)
(* written to and checked.                                                 *)
(***************************************************************************)
TxSenders == {getPublic(k) : k \in Keys} \cup {Null}
TxRecipients == {<<"B">>, <<"B", "1">>, EmptyString}
TxAmounts == {0, 1, 11, 50}

NewTransaction ==
  \E f \in TxSenders, t \in TxRecipients, a \in TxAmounts, now \in Times :
    /\ tx' = Transaction(f, t, a, now)
    /\ ret' = Returned("new Transaction", <<>>, "")
    /\ UNCHANGED <<chain, pendingTransactions, tampered, aBlock>>

SignTransaction ==
  \E signingKey \in Keys :
    /\ tx' = signTransaction(tx, signingKey)
    /\ ret' = Returned("signTransaction", signingKey,
                       signTransactionThrows(tx, signingKey))
    /\ UNCHANGED <<chain, pendingTransactions, tampered, aBlock>>

\* tx.fromAddress = f
SetFromAddress ==
  \E f \in TxSenders :
    /\ tx' = [tx EXCEPT !.fromAddress = f]
    /\ ret' = Returned("tx.fromAddress =", <<>>, "")
    /\ UNCHANGED <<chain, pendingTransactions, tampered, aBlock>>

\* tx.toAddress = t
SetToAddress ==
  \E t \in TxRecipients :
    /\ tx' = [tx EXCEPT !.toAddress = t]
    /\ ret' = Returned("tx.toAddress =", <<>>, "")
    /\ UNCHANGED <<chain, pendingTransactions, tampered, aBlock>>

\* tx.amount = a
SetAmount ==
  \E a \in TxAmounts :
    /\ tx' = [tx EXCEPT !.amount = a]
    /\ ret' = Returned("tx.amount =", <<>>, "")
    /\ UNCHANGED <<chain, pendingTransactions, tampered, aBlock>>

\* tx.timestamp = now
SetTimestamp ==
  \E now \in Times :
    /\ tx' = [tx EXCEPT !.timestamp = now]
    /\ ret' = Returned("tx.timestamp =", <<>>, "")
    /\ UNCHANGED <<chain, pendingTransactions, tampered, aBlock>>

\* tx.signature = ""
ClearSignature ==
  /\ tx' = SetSignature(tx, EmptyString)
  /\ ret' = Returned("tx.signature =", <<>>, "")
  /\ UNCHANGED <<chain, pendingTransactions, tampered, aBlock>>

IsValid ==
  /\ ret' = Returned("isValid", <<>>, isValid(tx))
  /\ UNCHANGED <<chain, pendingTransactions, tx, tampered, aBlock>>

NextTx ==
  \/ NewTransaction \/ SignTransaction \/ SetFromAddress \/ SetToAddress
  \/ SetAmount \/ SetTimestamp \/ ClearSignature \/ IsValid

SpecTx == Init /\ [][NextTx]_vars

(***************************************************************************)
(* One Block object in a caller's hands: constructed, mined one loop       *)
(* iteration at a time, its transactions property written.                 *)
(***************************************************************************)
BlockTimes == {1, 2, 3, 4}

BlockPreviousHashes == {createGenesisBlock.hash, <<"0">>}

\* The difficulties mineBlock is called with; the digest model has two
\* hex characters, so the targets are "", "0" and "00".
Difficulties == {0, 1, 2}

BlockTransactions ==
  { <<>>,
    <<Transaction(Null, <<"A">>, miningReward, 1)>>,
    <<signTransaction(Transaction(<<"A">>, <<"B">>, 50, 1), "a"),
      Transaction(Null, <<"A">>, miningReward, 1)>>,
    <<signTransaction(Transaction(<<"A">>, <<"B">>, 100, 1), "a"),
      Transaction(Null, <<"A">>, miningReward, 1)>>,
    <<Transaction(<<"A">>, <<"B">>, 50, 1)>> }

Running == "running"

\* block = new Block(timestamp, transactions, previousHash)
NewBlock ==
  /\ ret.result # Running
  /\ \E timestamp \in BlockTimes, transactions \in BlockTransactions,
        previousHash \in BlockPreviousHashes :
       aBlock' = Block(timestamp, transactions, previousHash)
  /\ ret' = Returned("new Block", <<>>, "")
  /\ UNCHANGED <<chain, pendingTransactions, tx, tampered>>

\* block.mineBlock(difficulty) is entered.
MineBlockCall ==
  /\ ret.result # Running
  /\ \E d \in Difficulties : ret' = Returned("mineBlock", d, Running)
  /\ UNCHANGED <<chain, pendingTransactions, tx, tampered, aBlock>>

\* The loop's condition holds: one pass through its body.
MineBlockIterate ==
  /\ ret.result = Running
  /\ Substring0(aBlock.hash, ret.arg) # Zeros(ret.arg)
  /\ LET next == [aBlock EXCEPT !.nonce = @ + 1]
     IN aBlock' = [next EXCEPT !.hash = Block_calculateHash(next)]
  /\ UNCHANGED <<chain, pendingTransactions, tx, ret, tampered>>

\* mineBlock returning whatever the loop's condition says.
MineBlockReturn_WithoutTest ==
  /\ ret.result = Running
  /\ ret' = Returned("mineBlock", ret.arg, "")
  /\ UNCHANGED <<chain, pendingTransactions, tx, tampered, aBlock>>

\* The loop's condition fails: mineBlock returns.
MineBlockReturn ==
  /\ ret.result = Running
  /\ Substring0(aBlock.hash, ret.arg) = Zeros(ret.arg)
  /\ ret' = Returned("mineBlock", ret.arg, "")
  /\ UNCHANGED <<chain, pendingTransactions, tx, tampered, aBlock>>

\* block.transactions = ...  (a write from outside the class)
SetBlockTransactions ==
  /\ ret.result # Running
  /\ \E transactions \in BlockTransactions :
       aBlock' = [aBlock EXCEPT !.transactions = transactions]
  /\ ret' = Returned("block.transactions =", <<>>, "")
  /\ UNCHANGED <<chain, pendingTransactions, tx, tampered>>

\* block.hasValidTransaction()
HasValidTransaction ==
  /\ ret.result # Running
  /\ ret' = Returned("hasValidTransaction", <<>>, hasValidTransaction(aBlock))
  /\ UNCHANGED <<chain, pendingTransactions, tx, tampered, aBlock>>

NextBlock ==
  \/ NewBlock \/ MineBlockCall \/ MineBlockIterate \/ MineBlockReturn
  \/ SetBlockTransactions \/ HasValidTransaction

SpecBlock == Init /\ [][NextBlock]_vars

(***************************************************************************)
(* The claims.                                                             *)
(***************************************************************************)
KeyA == "a"
WalletA == getPublic(KeyA)
WalletB == <<"B">>

\* A transfer from wallet A to wallet B, signed with A's key.
SignedTransfer(amount) ==
  signTransaction(Transaction(WalletA, WalletB, amount, 1), KeyA)

\* The reward transaction of a block mined for wallet A.
RewardToA == Transaction(Null, WalletA, 100, 1)

LastBlock == chain[Len(chain)]

\* C1: after any sequence of addTransaction and minePendingTransactions
\* calls on a fresh chain, isChainValid() completes and returns true.
C1_IsChainValidReturnsTrue == isChainValid = "true"

\* C2: once the amount of one transaction of a non-genesis block has been
\* overwritten, the block's hash and nonce left as they were, isChainValid()
\* returns false.
C2_TamperedAmountDetected == tampered = "amount" => isChainValid = "false"

\* C3: isChainValid() returns false whenever some block after the genesis
\* block has a previousHash that differs from the stored hash of the block
\* before it.
C3_BrokenLinkDetected ==
  (\E i \in 2..Len(chain) : chain[i].previousHash # chain[i - 1].hash)
    => isChainValid = "false"

\* C4: a call of addTransaction that throws leaves the pending queue and the
\* block sequence exactly as they were.
C4_FailedAddChangesNothing ==
  [][(ret'.op = "addTransaction" /\ ret'.result = "threw")
       => (pendingTransactions' = pendingTransactions /\ chain' = chain)]_vars

C4_Witness ==
  /\ ret.op = "addTransaction" /\ ret.result = "threw"
  /\ Len(pendingTransactions) > 0
  /\ Len(chain) > 1

\* The conditions under which C5 says addTransaction(t) succeeds.
C5_Accepts(t) ==
  /\ t.fromAddress # Null /\ t.fromAddress # EmptyString
  /\ t.toAddress # Null /\ t.toAddress # EmptyString
  /\ "signature" \in DOMAIN t
  /\ verify(t.fromAddress, Transaction_calculateHash(t), t.signature)
  /\ t.amount > 0
  /\ getBalanceOfAddress(t.fromAddress) >= t.amount

\* C5: addTransaction(t) succeeds exactly when t has a non-empty sender and
\* recipient, a signature that verifies against the sender, a positive amount
\* and a sender whose balance covers the amount; a successful call appends t
\* at the end of the pending queue and leaves the block sequence unchanged.
C5_AddSucceedsExactlyWhen ==
  /\ [](\A t \in TxInputs : (addTransactionThrows(t) = "") <=> C5_Accepts(t))
  /\ [][(ret'.op = "addTransaction" /\ ret'.result = "")
          => /\ chain' = chain
             /\ \E t \in TxInputs :
                  /\ C5_Accepts(t)
                  /\ pendingTransactions' = Append(pendingTransactions, t)]_vars

C5_Witness ==
  /\ ret.op = "addTransaction" /\ ret.result = ""
  /\ Len(pendingTransactions) = 2

\* C6: each minePendingTransactions(rewardAddress) call appends exactly one
\* block, whose transactions are the pending queue as it stood, in order,
\* followed by one reward transaction (sender null, recipient rewardAddress,
\* amount miningReward), and leaves the pending queue empty.
C6_MineAppendsQueueAndReward ==
  [][ret'.op = "minePendingTransactions"
       => LET n == Len(pendingTransactions)
              block == chain'[Len(chain')]
          IN /\ Len(chain') = Len(chain) + 1
             /\ SubSeq(chain', 1, Len(chain)) = chain
             /\ Len(block.transactions) = n + 1
             /\ SubSeq(block.transactions, 1, n) = pendingTransactions
             /\ block.transactions[n + 1].fromAddress = Null
             /\ block.transactions[n + 1].toAddress = ret'.arg
             /\ block.transactions[n + 1].amount = miningReward
             /\ "signature" \notin DOMAIN block.transactions[n + 1]
             /\ pendingTransactions' = <<>>]_vars

C6_Witness ==
  /\ ret.op = "minePendingTransactions"
  /\ Len(LastBlock.transactions) = 3
  /\ pendingTransactions = <<>>

\* The places of the transactions in the blocks.
C7_Places ==
  UNION {{<<i, j>> : j \in 1..Len(chain[i].transactions)} : i \in 1..Len(chain)}

C7_At(p) == chain[p[1]].transactions[p[2]]

RECURSIVE C7_SumAmounts(_)
C7_SumAmounts(S) ==
  IF S = {} THEN 0
  ELSE LET p == CHOOSE q \in S : TRUE
       IN C7_At(p).amount + C7_SumAmounts(S \ {p})

C7_Received(a) == C7_SumAmounts({p \in C7_Places : C7_At(p).toAddress = a})
C7_Sent(a) == C7_SumAmounts({p \in C7_Places : C7_At(p).fromAddress = a})

C7_Addresses == Senders \cup Recipients

\* C7: getBalanceOfAddress(a) is the sum of the amounts of the transactions in
\* the blocks with recipient a minus the sum of those with sender a; pending
\* transactions do not count, and an addTransaction call changes no balance.
C7_BalanceIsReceivedMinusSent ==
  /\ [](\A a \in C7_Addresses :
          getBalanceOfAddress(a) = C7_Received(a) - C7_Sent(a))
  /\ [][ret'.op = "addTransaction"
          => \A a \in C7_Addresses : balanceIn(chain', a) = balanceIn(chain, a)]_vars

C7_Witness ==
  /\ \E a \in Miners : C7_Received(a) > 0 /\ C7_Sent(a) > 0
  /\ ret.op = "addTransaction" /\ ret.result = ""

\* C8: on a fresh chain every addTransaction fails, a signed A->B transfer of
\* 100 for want of balance, and the queue stays empty; after
\* minePendingTransactions(A) the balance of A is 100 and a signed A->B
\* transfer of 50 is accepted; after it and a second minePendingTransactions(A)
\* the balance of A is 100 - 50 + 100.
C8_DemoScenario ==
  /\ Len(chain) = 1
       => /\ pendingTransactions = <<>>
          /\ \A t \in TxInputs : addTransactionThrows(t) # ""
          /\ addTransactionThrows(SignedTransfer(100)) = NotEnoughBalance
  /\ (Len(chain) = 2 /\ chain[2].transactions = <<RewardToA>>)
       => /\ getBalanceOfAddress(WalletA) = 100
          /\ addTransactionThrows(SignedTransfer(50)) = ""
  /\ (/\ Len(chain) = 3
      /\ chain[2].transactions = <<RewardToA>>
      /\ chain[3].transactions = <<SignedTransfer(50), RewardToA>>)
       => getBalanceOfAddress(WalletA) = 100 - 50 + 100

C8_Witness ==
  /\ Len(chain) = 3
  /\ chain[2].transactions = <<RewardToA>>
  /\ chain[3].transactions = <<SignedTransfer(50), RewardToA>>
  /\ getBalanceOfAddress(WalletA) = 150

\* C9: addTransaction accepts a validly signed transfer that the sender's
\* confirmed balance covers also when, together with the sender's transfers
\* already pending, it exceeds that balance.
C9_PendingQueueIgnored ==
  \A t \in TxInputs :
    (/\ isValid(t) = "true"
     /\ ~Falsy(t.fromAddress) /\ ~Falsy(t.toAddress)
     /\ t.amount > 0
     /\ t.amount <= getBalanceOfAddress(t.fromAddress)
     /\ spentIn(pendingTransactions, t.fromAddress) + t.amount
          > getBalanceOfAddress(t.fromAddress))
      => addTransactionThrows(t) = ""

\* Two transfers of one sender were mined in one block, the reward went to
\* another address, and the sender's balance is negative.
C9_Witness ==
  \E a \in Miners :
    /\ ret.op = "minePendingTransactions" /\ ret.arg # a
    /\ Len(LastBlock.transactions) = 3
    /\ LastBlock.transactions[1].fromAddress = a
    /\ LastBlock.transactions[2].fromAddress = a
    /\ getBalanceOfAddress(a) < 0

\* C10: isValid() returns true for a transaction whose sender is null, whatever
\* its other fields; for another sender with no or an empty signature it
\* throws; otherwise it returns the result of verifying the stored signature
\* against the sender and the current digest of sender, recipient and amount.
C10_IsValidContract ==
  ret.op = "isValid"
    => IF tx.fromAddress = Null THEN ret.result = "true"
       ELSE IF "signature" \notin DOMAIN tx \/ tx.signature = EmptyString
            THEN ret.result \notin {"true", "false"} /\ ret.result = MissingSignature
       ELSE ret.result =
              (IF verify(tx.fromAddress,
                         sha256(AddressToString(tx.fromAddress)
                                \o AddressToString(tx.toAddress)
                                \o NumToString(tx.amount)),
                         tx.signature)
               THEN "true" ELSE "false")

C10_Witness ==
  /\ ret.op = "isValid" /\ ret.result = MissingSignature
  /\ tx.fromAddress # Null
  /\ "signature" \in DOMAIN tx /\ tx.signature = EmptyString

\* C11: signTransaction(key) throws and leaves the transaction, its signature
\* included, as it was whenever the key's public identifier differs from the
\* sender; when they are equal it returns and stores the key's signature over
\* the current digest, changing nothing else.  So a signature that
\* signTransaction stores is never one made by a key other than the sender's.
C11_SignOnlyWithSendersKey ==
  [][ret'.op = "signTransaction" =>
       /\ IF getPublic(ret'.arg) # tx.fromAddress
          THEN ret'.result # "" /\ tx' = tx
          ELSE /\ ret'.result = ""
               /\ tx'.signature = sign(ret'.arg, Transaction_calculateHash(tx))
               /\ verify(tx.fromAddress, Transaction_calculateHash(tx'),
                         tx'.signature)
               /\ \A f \in DOMAIN tx \ {"signature"} : tx'[f] = tx[f]
       /\ \A k \in Keys :
            (tx' # tx /\ tx'.signature = sign(k, Transaction_calculateHash(tx)))
              => getPublic(k) = tx.fromAddress]_vars

\* A key that is not the sender's was refused, and the signature the sender's
\* key had stored is still there.
C11_Witness ==
  /\ ret.op = "signTransaction"
  /\ ret.result = NoPrivilege
  /\ getPublic(ret.arg) # tx.fromAddress
  /\ "signature" \in DOMAIN tx
  /\ tx.signature = sign(KeyA, Transaction_calculateHash(tx))

\* C12: a transaction of a non-null sender is valid right after that sender's
\* key signed it; writing a different amount into a valid, signed transaction
\* makes isValid() false; writing the timestamp leaves what isValid() answers
\* as it was, the digest covering sender, recipient and amount only.
C12_SignatureCoversAmountNotTimestamp ==
  /\ [][(ret'.op = "signTransaction" /\ ret'.result = "")
          => (tx'.fromAddress # Null /\ isValid(tx') = "true")]_vars
  /\ [][(/\ ret'.op = "tx.amount ="
          /\ tx.fromAddress # Null
          /\ isValid(tx) = "true"
          /\ tx'.amount # tx.amount)
          => isValid(tx') = "false"]_vars
  /\ [][ret'.op = "tx.timestamp ="
          => /\ isValid(tx') = isValid(tx)
             /\ Transaction_calculateHash(tx') = Transaction_calculateHash(tx)]_vars

\* A signed transaction whose amount was overwritten: invalid as it is, valid
\* with the amount it was signed with, whatever its timestamp.
C12_Witness ==
  /\ ret.op = "tx.amount ="
  /\ tx.fromAddress # Null
  /\ "signature" \in DOMAIN tx
  /\ isValid(tx) = "false"
  /\ \E a \in TxAmounts, now \in Times :
       /\ a # tx.amount
       /\ now # tx.timestamp
       /\ isValid([tx EXCEPT !.amount = a, !.timestamp = now]) = "true"

\* C13: under the public operations the chain is append-only: every block
\* in it stays at its index with all its fields and its transaction list, the
\* length never decreases, a step that changes the chain is a
\* minePendingTransactions call and adds exactly one block (and every such
\* call does), and the first block is always the genesis block.
C13_ChainIsAppendOnly ==
  /\ [](/\ Len(chain) >= 1
        /\ chain[1] = createGenesisBlock
        /\ chain[1].previousHash = <<"0">>
        /\ chain[1].timestamp = GenesisTime
        /\ chain[1].transactions = <<>>)
  /\ [][/\ Len(chain') >= Len(chain)
        /\ \A i \in 1..Len(chain) : chain'[i] = chain[i]
        /\ chain' # chain =>
             (ret'.op = "minePendingTransactions" /\ Len(chain') = Len(chain) + 1)
        /\ ret'.op = "minePendingTransactions" =>
             Len(chain') = Len(chain) + 1]_vars

\* Two blocks were appended to the genesis block, and then a transaction was
\* accepted.
C13_Witness ==
  /\ Len(chain) = 3
  /\ ret.op = "addTransaction"
  /\ ret.result = ""
  /\ chain[3].transactions # chain[2].transactions

\* C14: in every state the public operations reach, each block after the
\* first has for previousHash the stored hash of the block before it.
C14_BlocksAreLinked ==
  \A i \in 2..Len(chain) : chain[i].previousHash = chain[i - 1].hash

\* A chain of three blocks whose hashes differ one from the other.
C14_Witness ==
  /\ Len(chain) >= 3
  /\ chain[1].hash # chain[2].hash
  /\ chain[2].hash # chain[3].hash
  /\ chain[3].previousHash # chain[2].previousHash

\* C15: every block's stored hash is what calculateHash() gives on the block's
\* current fields, the current nonce included: right after construction, for
\* the genesis block, and after mineBlock returned, a call whose loop ran zero
\* times included.
C15_StoredHashIsCalculateHash ==
  /\ chain[1].hash = Block_calculateHash(chain[1])
  /\ ret.op = "new Block" => aBlock.hash = Block_calculateHash(aBlock)
  /\ (ret.op = "mineBlock" /\ ret.result = "")
       => aBlock.hash = Block_calculateHash(aBlock)

\* C16: when mineBlock(d) returns, the first d characters of the stored hash
\* are all "0"; a pass through the loop adds exactly one to the nonce, stores
\* the hash calculated with the new nonce and writes nothing else; and
\* mineBlock(0) returns at once with the block as it was.
C16_MineBlockMeetsDifficulty ==
  /\ []((ret.op = "mineBlock" /\ ret.result = "")
         => /\ Len(aBlock.hash) >= ret.arg
            /\ \A k \in 1..ret.arg : aBlock.hash[k] = "0")
  /\ [][(ret.op = "mineBlock" /\ ret.result = Running /\ aBlock' # aBlock)
          => /\ aBlock'.nonce = aBlock.nonce + 1
             /\ aBlock'.hash = Block_calculateHash(aBlock')
             /\ \A f \in DOMAIN aBlock \ {"nonce", "hash"} : aBlock'[f] = aBlock[f]
             /\ ret' = ret]_vars
  /\ [][(ret'.op = "mineBlock" /\ ret'.arg = 0)
          => /\ aBlock' = aBlock
             /\ ret.result = Running => ret'.result = ""]_vars

\* mineBlock(2) returned after two or more passes through its loop.
C16_Witness ==
  /\ ret.op = "mineBlock"
  /\ ret.result = ""
  /\ ret.arg = 2
  /\ aBlock.nonce >= 2
  /\ aBlock.hash[1] = "0"
  /\ aBlock.hash[2] = "0"

\* C17: calculateHash() of a block depends on the block's transactions: the
\* digest being injective, writing another transaction list into a block,
\* previousHash, timestamp and nonce staying, changes what calculateHash()
\* returns.
C17_HashDependsOnTransactions ==
  [][(ret'.op = "block.transactions ="
        /\ aBlock'.transactions # aBlock.transactions)
      => Block_calculateHash(aBlock') # Block_calculateHash(aBlock)]_vars

\* C18: the digest being injective on its input string, a transaction that
\* differs from another in sender, recipient or amount has a different
\* calculateHash(); so a signature that verifies for one recipient and amount
\* verifies for no other recipient and amount of the same sender.
C18_DigestSeparatesTriples ==
  /\ \A f \in TxSenders, t \in TxRecipients, a \in TxAmounts :
       <<f, t, a>> # <<tx.fromAddress, tx.toAddress, tx.amount>>
         => Transaction_calculateHash(Transaction(f, t, a, tx.timestamp))
              # Transaction_calculateHash(tx)
  /\ (tx.fromAddress # Null /\ isValid(tx) = "true")
       => \A t \in TxRecipients, a \in TxAmounts :
            <<t, a>> # <<tx.toAddress, tx.amount>>
              => isValid([tx EXCEPT !.toAddress = t, !.amount = a]) = "false"

\* The sum of getBalanceOfAddress over the addresses of a set.
RECURSIVE C19_TotalBalance(_)
C19_TotalBalance(addresses) ==
  IF addresses = {} THEN 0
  ELSE LET a == CHOOSE x \in addresses : TRUE
       IN getBalanceOfAddress(a) + C19_TotalBalance(addresses \ {a})

\* C19: coins come from mining only: in every state the public operations
\* reach, the balances of all addresses other than null add up to
\* miningReward times the number of blocks after the genesis block; no
\* transaction with the null sender is in the queue addTransaction fills; and
\* every block after the genesis block holds exactly one transaction with
\* the null sender, as its last, of amount miningReward.
C19_CoinsComeFromMiningOnly ==
  /\ C19_TotalBalance(C7_Addresses \ {Null}) = miningReward * (Len(chain) - 1)
  /\ \A i \in 1..Len(pendingTransactions) :
       pendingTransactions[i].fromAddress # Null
  /\ \A i \in 2..Len(chain) :
       LET transactions == chain[i].transactions
           n == Len(transactions)
       IN /\ n >= 1
          /\ transactions[n].fromAddress = Null
          /\ transactions[n].amount = miningReward
          /\ \A j \in 1..(n - 1) : transactions[j].fromAddress # Null

\* Two blocks mined, one for each wallet, with a transfer between them: the
\* balances are 50, 100 and 50.
C19_Witness ==
  /\ Len(chain) = 3
  /\ getBalanceOfAddress(WalletA) = 50
  /\ getBalanceOfAddress(WalletB) = 50
  /\ getBalanceOfAddress(getPublic("c")) = 100
  /\ ret.op = "minePendingTransactions"

\* C20: a signed transaction gets into the ledger once at most: when
\* addTransaction accepts a transaction, that signed transaction is in no
\* block and not in the queue already.
C20_SignedTransactionAcceptedOnce ==
  [][(ret'.op = "addTransaction" /\ ret'.result = ""
        /\ Len(pendingTransactions') = Len(pendingTransactions) + 1)
      => LET held == AllTransactions(chain) \o pendingTransactions
             accepted == pendingTransactions'[Len(pendingTransactions')]
         IN \A i \in 1..Len(held) : held[i] # accepted]_vars

====
